---- MODULE Spec2Model ----
(***************************************************************************)
(* Model of bert/transformer.py: the four layer classes ProjectionLayer,   *)
(* TransformerSelfAttentionLayer, SingleTransformerEncoderLayer and        *)
(* TransformerEncoderLayer, their _construct / build / call methods, and   *)
(* the forward computation graph they wire together.                       *)
(*                                                                         *)
(* Numerical values are not modelled.  A tensor is an index into `tensors` *)
(* (its shape); every invocation of a layer or of `+` appends a record to  *)
(* `calls` naming the layer, the tensors it received, the mask and         *)
(* training keywords it was given and the tensor it returned.              *)
(*                                                                         *)
(* Optional values (Python None) are sets: {} is None, {v} is the value v. *)
(* Keywords mask / training are strings, "None" when absent.               *)
(***************************************************************************)
EXTENDS Integers, Sequences, FiniteSets, TLC

VARIABLES
    params,        \* the Params object handed to from_params
    layers,        \* every live layer object (the root has path << >>)
    aborted,       \* the half-initialised object of the last constructor that raised
    tensors,       \* shapes of the tensors of the current forward pass
    calls,         \* layer invocations of the current forward pass, in completion order
    ret,           \* the tensor returned by the last forward pass (0: none)
    in_mask,       \* mask keyword of the last root call
    in_training,   \* training keyword of the last root call
    raised,        \* exception raised by the last operation ("" if none)
    raisedIn       \* the operation that raised ("" if none)

vars == <<params, layers, aborted, tensors, calls, ret, in_mask, in_training, raised, raisedIn>>

\* ---------------------------------------------------------------- bounds
MaxHidden == 4
MaxHeads  == 3
MaxLayers == 2
MaxInter  == 2
MaxBatch  == 2
MaxSeq    == 1
MaxSizePerHead == 2

\* ---------------------------------------------------------------- values
Classes == {"ProjectionLayer", "TransformerSelfAttentionLayer",
            "SingleTransformerEncoderLayer", "TransformerEncoderLayer"}

Masks     == {"None", "mask"}
Trainings == {"None", "True", "False"}

\* Params of TransformerEncoderLayer: the union of the fields of every Params
\* class of the file (each class's Params inherits its parents' fields).
ParamsSet ==
    [hidden_size             : 1..MaxHidden,
     num_heads               : 1..MaxHeads,
     size_per_head           : {{}} \cup {{k} : k \in 1..MaxSizePerHead},
     hidden_dropout          : {"0.1"},
     attention_dropout       : {"0.1"},
     initializer_range       : {"0.02"},
     intermediate_size       : 1..MaxInter,
     intermediate_activation : {"gelu"},
     num_layers              : 1..MaxLayers]

Value(opt) == CHOOSE v \in opt : TRUE

\* A freshly allocated layer object, before _construct has run.
NewLayer(path, c, p) ==
    [path |-> path, cls |-> c, params |-> p,
     size_per_head |-> {}, attrs |-> {}, encoder_layers |-> <<>>,
     input_spec |-> <<>>, built |-> FALSE,
     units |-> {}, rate |-> "", activation |-> ""]

\* The interpreter state threaded through a method: the heap of layer
\* objects, the tensors and calls of the forward pass, the pending exception.
Ctx == [layers |-> layers, aborted |-> aborted, tensors |-> tensors,
        calls |-> calls, ret |-> ret, raised |-> raised]

Get(ctx, path) == CHOOSE l \in ctx.layers : l.path = path

Put(ctx, l) == [ctx EXCEPT !.layers = {x \in @ : x.path # l.path} \cup {l}]

Raise(ctx, exc) == [ctx EXCEPT !.raised = exc]

\* from_params: allocate the object and run its _construct; `r` is the result
\* of _construct.  An object whose constructor raised is never installed.
Install(ctx, r) ==
    IF ctx.raised # "" THEN ctx
    ELSE IF r.raised # "" THEN [ctx EXCEPT !.raised = r.raised, !.aborted = {r.self}]
    ELSE Put(ctx, r.self)

ShapesOf(ctx, inputs) == [i \in 1..Len(inputs) |-> ctx.tensors[inputs[i]]]

\* ------------------------------------------------- framework primitives
\* keras.layers.Dense / Dropout, LayerNormalization: constructed by build().
\* Their own lazy build is the framework's; `built` is tracked for the layer
\* classes of this module only.
KerasLayer(ctx, c, path, p, units, rate, activation) ==
    IF ctx.raised # "" THEN ctx
    ELSE Put(ctx, [NewLayer(path, c, p) EXCEPT !.units = units, !.rate = rate,
                                               !.activation = activation])

\* Append one invocation record: layer `path` of class c received `inputs`
\* with the given keywords and returned tensor `out`.
Record(ctx, path, c, inputs, mask, training, out) ==
    [ctx EXCEPT !.calls = Append(@, [layer |-> path, cls |-> c, inputs |-> inputs,
                                     mask |-> mask, training |-> training,
                                     output |-> out]),
                !.ret = out]

Primitive(ctx, path, c, inputs, mask, training, shape) ==
    IF ctx.raised # "" THEN ctx
    ELSE Record([ctx EXCEPT !.tensors = Append(@, shape)], path, c, inputs,
                mask, training, Len(ctx.tensors) + 1)

\* dense(x): the last dimension becomes the layer's units.
Dense_call(ctx, path, x) ==
    IF ctx.raised # "" THEN ctx
    ELSE LET s == ctx.tensors[x]
             l == Get(ctx, path)
         IN  Primitive(ctx, path, "Dense", <<x>>, "None", "None",
                       <<s[1], s[2], Value(l.units)>>)

\* dropout(x, training=training): shape unchanged.
Dropout_call(ctx, path, x, training) ==
    IF ctx.raised # "" THEN ctx
    ELSE Primitive(ctx, path, "Dropout", <<x>>, "None", training, ctx.tensors[x])

\* layer_norm(x): shape unchanged.
LayerNormalization_call(ctx, path, x) ==
    IF ctx.raised # "" THEN ctx
    ELSE Primitive(ctx, path, "LayerNormalization", <<x>>, "None", "None",
                   ctx.tensors[x])

\* Shape of a + b under broadcasting; << >> when the shapes are incompatible
\* (the framework rejects the addition).
BroadcastShape(a, b) ==
    IF Len(a) = Len(b) /\ \A i \in 1..Len(a) : a[i] = b[i] \/ a[i] = 1 \/ b[i] = 1
    THEN [i \in 1..Len(a) |-> IF a[i] = 1 THEN b[i] ELSE a[i]]
    ELSE <<>>

Add_call(ctx, path, a, b) ==
    IF ctx.raised # "" THEN ctx
    ELSE Primitive(ctx, path, "add", <<a, b>>, "None", "None",
                   BroadcastShape(ctx.tensors[a], ctx.tensors[b]))

\* ------------------------------------------------------ ProjectionLayer
\* Statements of a method run in sequence: `{ g(c) : c \in { f(ctx) } }` is
\* "run f, then g on the state f left"; Value takes the single result.

ProjectionLayer_construct(self, p) ==
    [self   |-> [self EXCEPT !.attrs = {"dense", "dropout", "layer_norm",
                                        "supports_masking"}],
     raised |-> ""]

\* Variant: the dense layer sized by intermediate_size instead of hidden_size.
ProjectionLayer_build_IntermediateUnits(ctx, path, input_shape) ==
    IF ctx.raised # "" THEN ctx
    ELSE IF Len(input_shape) # 2 THEN Raise(ctx, "AssertionError")
    ELSE LET self == Get(ctx, path) IN
         Value({ Put(c3, [Get(c3, path) EXCEPT !.built = TRUE]) :
           c3 \in { KerasLayer(c2, "LayerNormalization", path \o <<"LayerNorm">>,
                               self.params, {}, "", "") :
           c2 \in { KerasLayer(c1, "Dropout", path \o <<"dropout">>, self.params,
                               {}, self.params.hidden_dropout, "") :
           c1 \in { KerasLayer(c0, "Dense", path \o <<"dense">>, self.params,
                               {self.params.intermediate_size}, "", "None") :
           c0 \in { Put(ctx, [self EXCEPT !.input_spec = input_shape,
                                          !.attrs = @ \cup {"input_spec"}]) }}}}})

ProjectionLayer_build(ctx, path, input_shape) ==
    IF ctx.raised # "" THEN ctx
    ELSE IF Len(input_shape) # 2 THEN Raise(ctx, "AssertionError")
    ELSE LET self == Get(ctx, path) IN
         Value({ Put(c3, [Get(c3, path) EXCEPT !.built = TRUE]) :
           c3 \in { KerasLayer(c2, "LayerNormalization", path \o <<"LayerNorm">>,
                               self.params, {}, "", "") :
           c2 \in { KerasLayer(c1, "Dropout", path \o <<"dropout">>, self.params,
                               {}, self.params.hidden_dropout, "") :
           c1 \in { KerasLayer(c0, "Dense", path \o <<"dense">>, self.params,
                               {self.params.hidden_size}, "", "None") :
           c0 \in { Put(ctx, [self EXCEPT !.input_spec = input_shape,
                                          !.attrs = @ \cup {"input_spec"}]) }}}}})

\* Variant: the residual added before the dropout.
ProjectionLayer_call_ResidualBeforeDropout(ctx, path, inputs, mask, training) ==
    IF ctx.raised # "" THEN ctx
    ELSE LET output   == inputs[1]
             residual == inputs[2]
         IN  Value({ Record(c4, path, "ProjectionLayer", inputs, mask, training, c4.ret) :
               c4 \in { LayerNormalization_call(c3, path \o <<"LayerNorm">>, c3.ret) :
               c3 \in { Dropout_call(c2, path \o <<"dropout">>, c2.ret, training) :
               c2 \in { Add_call(c1, path, c1.ret, residual) :
               c1 \in { Dense_call(ctx, path \o <<"dense">>, output) }}}}})

ProjectionLayer_call(ctx, path, inputs, mask, training) ==
    IF ctx.raised # "" THEN ctx
    ELSE LET output   == inputs[1]
             residual == inputs[2]
         IN  Value({ Record(c4, path, "ProjectionLayer", inputs, mask, training, c4.ret) :
               c4 \in { LayerNormalization_call(c3, path \o <<"LayerNorm">>, c3.ret) :
               c3 \in { Add_call(c2, path, c2.ret, residual) :
               c2 \in { Dropout_call(c1, path \o <<"dropout">>, c1.ret, training) :
               c1 \in { Dense_call(ctx, path \o <<"dense">>, output) }}}}})

\* Layer.__call__ of the framework: build on first use, then call.
ProjectionLayer_invoke(ctx, path, inputs, mask, training) ==
    IF ctx.raised # "" THEN ctx
    ELSE Value({ ProjectionLayer_call(c1, path, inputs, mask, training) :
           c1 \in { IF Get(ctx, path).built THEN ctx
                    ELSE ProjectionLayer_build(ctx, path, ShapesOf(ctx, inputs)) }})

\* ------------------------------------------------------- AttentionLayer
\* bert/attention.py: multi-head attention; the heads are concatenated, so the
\* last dimension of the result is num_heads * size_per_head.
AttentionLayer_construct(self, p) ==
    [self   |-> [self EXCEPT !.size_per_head = p.size_per_head,
                             !.attrs = {"supports_masking"}],
     raised |-> ""]

AttentionLayer_call(ctx, path, inputs, mask, training) ==
    IF ctx.raised # "" THEN ctx
    ELSE LET self == Get(ctx, path)
             s    == ctx.tensors[inputs[1]]
         IN  Primitive(ctx, path, "AttentionLayer", inputs, mask, training,
                       <<s[1], s[2],
                         self.params.num_heads * Value(self.params.size_per_head)>>)

AttentionLayer_invoke(ctx, path, inputs, mask, training) ==
    IF ctx.raised # "" THEN ctx
    ELSE Value({ AttentionLayer_call(c1, path, inputs, mask, training) :
           c1 \in { Put(ctx, [Get(ctx, path) EXCEPT
                                  !.built = TRUE,
                                  !.input_spec = ShapesOf(ctx, inputs)]) }})

\* ---------------------------------------- TransformerSelfAttentionLayer
\* Variant: the quotient taken the wrong way round.
TransformerSelfAttentionLayer_construct_SwappedQuotient(self, p) ==
    IF p.hidden_size % p.num_heads # 0
    THEN [self |-> self, raised |-> "ValueError"]
    ELSE LET s1 == [self EXCEPT !.size_per_head = {p.num_heads \div p.hidden_size},
                                !.attrs = {"size_per_head"}]
         IN  IF ~(p.size_per_head = {} \/ s1.size_per_head = p.size_per_head)
             THEN [self |-> s1, raised |-> "AssertionError"]
             ELSE [self   |-> [s1 EXCEPT !.attrs = @ \cup {"attention_layer",
                                                          "attention_projector",
                                                          "supports_masking"}],
                   raised |-> ""]

\* Variant: size_per_head assigned before the divisibility check.
TransformerSelfAttentionLayer_construct_LateCheck(self, p) ==
    LET s1 == [self EXCEPT !.size_per_head = {p.hidden_size \div p.num_heads},
                           !.attrs = {"size_per_head"}]
    IN  IF p.hidden_size % p.num_heads # 0
        THEN [self |-> s1, raised |-> "ValueError"]
        ELSE IF ~(p.size_per_head = {} \/ s1.size_per_head = p.size_per_head)
             THEN [self |-> s1, raised |-> "AssertionError"]
             ELSE [self   |-> [s1 EXCEPT !.attrs = @ \cup {"attention_layer",
                                                          "attention_projector",
                                                          "supports_masking"}],
                   raised |-> ""]

TransformerSelfAttentionLayer_construct(self, p) ==
    IF p.hidden_size % p.num_heads # 0
    THEN [self |-> self, raised |-> "ValueError"]
    ELSE LET s1 == [self EXCEPT !.size_per_head = {p.hidden_size \div p.num_heads},
                                !.attrs = {"size_per_head"}]
         IN  IF ~(p.size_per_head = {} \/ s1.size_per_head = p.size_per_head)
             THEN [self |-> s1, raised |-> "AssertionError"]
             ELSE [self   |-> [s1 EXCEPT !.attrs = @ \cup {"attention_layer",
                                                          "attention_projector",
                                                          "supports_masking"}],
                   raised |-> ""]

\* super().build(input_shape): the layer is built once build() returns.
MarkBuilt(ctx, path) ==
    IF ctx.raised # "" THEN ctx
    ELSE Put(ctx, [Get(ctx, path) EXCEPT !.built = TRUE])

TransformerSelfAttentionLayer_build(ctx, path, input_shape) ==
    IF ctx.raised # "" THEN ctx
    ELSE LET self == Get(ctx, path)
             pa   == [self.params EXCEPT !.size_per_head = self.size_per_head]
         IN  Value({ MarkBuilt(c2, path) :
               c2 \in { Install(c1, ProjectionLayer_construct(
                                        NewLayer(path \o <<"output">>, "ProjectionLayer",
                                                 self.params), self.params)) :
               c1 \in { Install(c0, AttentionLayer_construct(
                                        NewLayer(path \o <<"self">>, "AttentionLayer", pa),
                                        pa)) :
               c0 \in { Put(ctx, [self EXCEPT !.input_spec = input_shape,
                                              !.attrs = @ \cup {"input_spec"}]) }}}})

\* Return from a composite layer's call: record the invocation.
Return(ctx, path, c, inputs, mask, training, out) ==
    IF ctx.raised # "" THEN ctx
    ELSE Record(ctx, path, c, inputs, mask, training, out)

TransformerSelfAttentionLayer_call(ctx, path, inputs, mask, training) ==
    IF ctx.raised # "" THEN ctx
    ELSE LET layer_input == inputs[1]
         IN  Value({ Return(c2, path, "TransformerSelfAttentionLayer", inputs, mask,
                            training, c2.ret) :
               \* attention_output = attention_projector([attention_head, layer_input], ...)
               c2 \in { ProjectionLayer_invoke(c1, path \o <<"output">>,
                                               <<c1.ret, layer_input>>, mask, training) :
               \* attention_head = attention_layer(layer_input, ...)
               c1 \in { AttentionLayer_invoke(ctx, path \o <<"self">>, <<layer_input>>,
                                              mask, training) }}})

TransformerSelfAttentionLayer_invoke(ctx, path, inputs, mask, training) ==
    IF ctx.raised # "" THEN ctx
    ELSE Value({ TransformerSelfAttentionLayer_call(c1, path, inputs, mask, training) :
           c1 \in { IF Get(ctx, path).built THEN ctx
                    ELSE TransformerSelfAttentionLayer_build(ctx, path,
                                                             ShapesOf(ctx, inputs)) }})

\* ---------------------------------------- SingleTransformerEncoderLayer
\* Variant: no divisibility check.
SingleTransformerEncoderLayer_construct_NoCheck(self, p) ==
    [self   |-> [self EXCEPT !.size_per_head = {p.hidden_size \div p.num_heads},
                             !.attrs = {"size_per_head", "self_attention",
                                        "intermediate_layer", "output_projector",
                                        "supports_masking"}],
     raised |-> ""]

SingleTransformerEncoderLayer_construct(self, p) ==
    IF p.hidden_size % p.num_heads # 0
    THEN [self |-> self, raised |-> "ValueError"]
    ELSE [self   |-> [self EXCEPT !.size_per_head = {p.hidden_size \div p.num_heads},
                                  !.attrs = {"size_per_head", "self_attention",
                                             "intermediate_layer", "output_projector",
                                             "supports_masking"}],
          raised |-> ""]

SingleTransformerEncoderLayer_build(ctx, path, input_shape) ==
    IF ctx.raised # "" THEN ctx
    ELSE LET self == Get(ctx, path) IN
         Value({ MarkBuilt(c3, path) :
           c3 \in { Install(c2, ProjectionLayer_construct(
                                    NewLayer(path \o <<"output">>, "ProjectionLayer",
                                             self.params), self.params)) :
           c2 \in { KerasLayer(c1, "Dense", path \o <<"intermediate">>, self.params,
                               {self.params.intermediate_size}, "",
                               self.params.intermediate_activation) :
           c1 \in { IF c0a.raised # "" THEN c0a
                    ELSE Put(c0a, [Get(c0a, path) EXCEPT
                                       !.attrs = @ \cup {"self_attention_layer"}]) :
           c0a \in { Install(c0, TransformerSelfAttentionLayer_construct(
                                     NewLayer(path \o <<"attention">>,
                                              "TransformerSelfAttentionLayer",
                                              self.params), self.params)) :
           c0 \in { Put(ctx, [self EXCEPT !.input_spec = input_shape,
                                          !.attrs = @ \cup {"input_spec"}]) }}}}}})

\* The keywords SingleTransformerEncoderLayer.call gives its output projector:
\* mask=mask, and no training keyword (the callee's default, None).
OutputProjectorTraining(training) == "None"

\* Variant: the output projector's residual is the block input.
SingleTransformerEncoderLayer_call_InputResidual(ctx, path, inputs, mask, training) ==
    IF ctx.raised # "" THEN ctx
    ELSE LET layer_input == inputs[1]
         IN  Value({ Value({ Value({
                 Return(c3, path, "SingleTransformerEncoderLayer", inputs, mask,
                        training, c3.ret) :
               \* layer_output = output_projector([intermediate_output, attention_output], ...)
               c3 \in { ProjectionLayer_invoke(c2, path \o <<"output">>,
                                               <<c2.ret, layer_input>>, mask,
                                               OutputProjectorTraining(training)) }}) :
               \* intermediate_output = intermediate_layer(attention_output)
               c2 \in { Dense_call(c1, path \o <<"intermediate">>, c1.ret) }}) :
               \* attention_output = self_attention_layer(layer_input, ...)
               c1 \in { TransformerSelfAttentionLayer_invoke(
                            ctx, path \o <<"attention">>, <<layer_input>>,
                            mask, training) }})

SingleTransformerEncoderLayer_call(ctx, path, inputs, mask, training) ==
    IF ctx.raised # "" THEN ctx
    ELSE LET layer_input == inputs[1]
         IN  Value({ Value({ Value({
                 Return(c3, path, "SingleTransformerEncoderLayer", inputs, mask,
                        training, c3.ret) :
               \* layer_output = output_projector([intermediate_output, attention_output], ...)
               c3 \in { ProjectionLayer_invoke(c2, path \o <<"output">>,
                                               <<c2.ret, c1.ret>>, mask,
                                               OutputProjectorTraining(training)) }}) :
               \* intermediate_output = intermediate_layer(attention_output)
               c2 \in { Dense_call(c1, path \o <<"intermediate">>, c1.ret) }}) :
               \* attention_output = self_attention_layer(layer_input, ...)
               c1 \in { TransformerSelfAttentionLayer_invoke(
                            ctx, path \o <<"attention">>, <<layer_input>>,
                            mask, training) }})

SingleTransformerEncoderLayer_invoke(ctx, path, inputs, mask, training) ==
    IF ctx.raised # "" THEN ctx
    ELSE Value({ SingleTransformerEncoderLayer_call(c1, path, inputs, mask, training) :
           c1 \in { IF Get(ctx, path).built THEN ctx
                    ELSE SingleTransformerEncoderLayer_build(ctx, path,
                                                             ShapesOf(ctx, inputs)) }})

\* ----------------------------------------------- TransformerEncoderLayer
TransformerEncoderLayer_construct(self, p) ==
    [self   |-> [self EXCEPT !.encoder_layers = <<>>,
                             !.attrs = {"encoder_layers", "supports_masking"}],
     raised |-> ""]

\* name="layer_{}".format(layer_ndx)
LayerName(layer_ndx) == "layer_" \o ToString(layer_ndx)

\* range(...) of the loop that creates the encoder sub-layers
NumEncoderLayers(p) == p.num_heads

\* self.encoder_layers.append(encoder_layer)
AppendEncoderLayer(ctx, path, sub) ==
    IF ctx.raised # "" THEN ctx
    ELSE Put(ctx, [Get(ctx, path) EXCEPT !.encoder_layers = Append(@, sub)])

\* the loop body for layer_ndx, layer_ndx + 1, ... , n - 1
RECURSIVE CreateEncoderLayers(_, _, _, _)
CreateEncoderLayers(ctx, path, layer_ndx, n) ==
    IF ctx.raised # "" \/ layer_ndx >= n THEN ctx
    ELSE LET self == Get(ctx, path)
             sub  == path \o <<LayerName(layer_ndx)>>
         IN  Value({ CreateEncoderLayers(c2, path, layer_ndx + 1, n) :
               c2 \in { AppendEncoderLayer(c1, path, sub) :
               c1 \in { Install(ctx, SingleTransformerEncoderLayer_construct(
                                         NewLayer(sub, "SingleTransformerEncoderLayer",
                                                  self.params), self.params)) }}})

\* Variant: build writes the number of blocks it creates back into params.
TransformerEncoderLayer_build_WritesParams(ctx, path, input_shape) ==
    IF ctx.raised # "" THEN ctx
    ELSE LET self == Get(ctx, path) IN
         Value({ MarkBuilt(c1, path) :
           c1 \in { CreateEncoderLayers(c0, path, 0, NumEncoderLayers(self.params)) :
           c0 \in { Put(ctx, [self EXCEPT !.input_spec = input_shape,
                                          !.attrs = @ \cup {"input_spec"},
                                          !.encoder_layers = <<>>,
                                          !.params.num_layers =
                                              NumEncoderLayers(self.params)]) }}})

TransformerEncoderLayer_build(ctx, path, input_shape) ==
    IF ctx.raised # "" THEN ctx
    ELSE LET self == Get(ctx, path) IN
         Value({ MarkBuilt(c1, path) :
           c1 \in { CreateEncoderLayers(c0, path, 0, NumEncoderLayers(self.params)) :
           c0 \in { Put(ctx, [self EXCEPT !.input_spec = input_shape,
                                          !.attrs = @ \cup {"input_spec"},
                                          !.encoder_layers = <<>>]) }}})

\* the loop over self.encoder_layers[i..]; layer_output is the running value
RECURSIVE ApplyEncoderLayers(_, _, _, _, _, _)
ApplyEncoderLayers(ctx, encoder_layers, i, layer_output, mask, training) ==
    IF ctx.raised # "" \/ i > Len(encoder_layers) THEN [ctx EXCEPT !.ret = layer_output]
    ELSE LET layer_input == layer_output
         IN  Value({ ApplyEncoderLayers(c1, encoder_layers, i + 1, c1.ret, mask, training) :
               c1 \in { SingleTransformerEncoderLayer_invoke(
                            ctx, encoder_layers[i], <<layer_input>>, mask, training) }})

TransformerEncoderLayer_call(ctx, path, inputs, mask, training) ==
    IF ctx.raised # "" THEN ctx
    ELSE Value({ Return(c1, path, "TransformerEncoderLayer", inputs, mask, training,
                        c1.ret) :
           c1 \in { ApplyEncoderLayers(ctx, Get(ctx, path).encoder_layers, 1,
                                       inputs[1], mask, training) }})

\* ------------------------------------------------------------- actions
Root == Get(Ctx, <<>>)

\* a live root layer of class c exists
Live(c) == layers # {} /\ Root.cls = c

\* The shapes a layer can be built for: a tensor [batch, seq_len, hidden_size].
InputShapes(p) ==
    {<<<<b, s, p.hidden_size>>>> : b \in 1..MaxBatch, s \in 1..MaxSeq}

\* A ProjectionLayer takes the list [output, residual], the residual of shape
\* [batch, seq_len, hidden_size]; or, from a caller that passes one tensor,
\* a list of one shape.
ProjectionInputShapes(p) ==
    {<<<<b, s, d>>, <<b, s, p.hidden_size>>>> :
         b \in 1..MaxBatch, s \in 1..MaxSeq, d \in {p.hidden_size, p.intermediate_size}}
    \cup InputShapes(p)

\* The state a method starts in: no pending exception.
Enter == [Ctx EXCEPT !.raised = ""]

\* The state a forward pass starts in: fresh tensors of the shapes the root
\* was built for, no invocation yet.
EnterCall == [Ctx EXCEPT !.raised = "", !.ret = 0, !.calls = <<>>,
                         !.tensors = Root.input_spec]

RootInputs == [i \in 1..Len(Root.input_spec) |-> i]

\* The state the method `op` left.
Finish(ctx, op) ==
    /\ layers'   = ctx.layers
    /\ aborted'  = ctx.aborted
    /\ tensors'  = ctx.tensors
    /\ calls'    = ctx.calls
    /\ ret'      = ctx.ret
    /\ raised'   = ctx.raised
    /\ raisedIn' = IF ctx.raised # "" THEN op ELSE ""

\* ProjectionLayer.from_params(params): allocate the layer, run _construct.
ProjectionLayerConstruct ==
    /\ layers = {}
    /\ \E done \in { Install([Enter EXCEPT !.aborted = {}],
                               ProjectionLayer_construct(
                                   NewLayer(<<>>, "ProjectionLayer", params), params)) } :
           Finish(done, "_construct")
    /\ UNCHANGED <<params, in_mask, in_training>>

\* ProjectionLayer.build(input_shape), run once before the first call.
ProjectionLayerBuild ==
    /\ Live("ProjectionLayer")
    /\ ~Root.built
    /\ \E input_shape \in ProjectionInputShapes(Root.params) :
           \E done \in { ProjectionLayer_build(Enter, <<>>, input_shape) } :
               Finish(done, "build")
    /\ UNCHANGED <<params, in_mask, in_training>>

\* ProjectionLayer.call(inputs, mask, training) on the built layer.
ProjectionLayerCall ==
    /\ Live("ProjectionLayer")
    /\ Root.built
    /\ \E mask \in Masks, training \in Trainings :
           /\ \E done \in { ProjectionLayer_call(EnterCall, <<>>, RootInputs, mask, training) } :
                  Finish(done, "call")
           /\ in_mask' = mask
           /\ in_training' = training
    /\ UNCHANGED params

\* TransformerSelfAttentionLayer.from_params(params): allocate the layer, run _construct.
TransformerSelfAttentionLayerConstruct ==
    /\ layers = {}
    /\ \E done \in { Install([Enter EXCEPT !.aborted = {}],
                               TransformerSelfAttentionLayer_construct(
                                   NewLayer(<<>>, "TransformerSelfAttentionLayer", params), params)) } :
           Finish(done, "_construct")
    /\ UNCHANGED <<params, in_mask, in_training>>

\* TransformerSelfAttentionLayer.build(input_shape), run once before the first call.
TransformerSelfAttentionLayerBuild ==
    /\ Live("TransformerSelfAttentionLayer")
    /\ ~Root.built
    /\ \E input_shape \in InputShapes(Root.params) :
           \E done \in { TransformerSelfAttentionLayer_build(Enter, <<>>, input_shape) } :
               Finish(done, "build")
    /\ UNCHANGED <<params, in_mask, in_training>>

\* TransformerSelfAttentionLayer.call(inputs, mask, training) on the built layer.
TransformerSelfAttentionLayerCall ==
    /\ Live("TransformerSelfAttentionLayer")
    /\ Root.built
    /\ \E mask \in Masks, training \in Trainings :
           /\ \E done \in { TransformerSelfAttentionLayer_call(EnterCall, <<>>, RootInputs, mask, training) } :
                  Finish(done, "call")
           /\ in_mask' = mask
           /\ in_training' = training
    /\ UNCHANGED params

\* SingleTransformerEncoderLayer.from_params(params): allocate the layer, run _construct.
SingleTransformerEncoderLayerConstruct ==
    /\ layers = {}
    /\ \E done \in { Install([Enter EXCEPT !.aborted = {}],
                               SingleTransformerEncoderLayer_construct(
                                   NewLayer(<<>>, "SingleTransformerEncoderLayer", params), params)) } :
           Finish(done, "_construct")
    /\ UNCHANGED <<params, in_mask, in_training>>

\* SingleTransformerEncoderLayer.build(input_shape), run once before the first call.
SingleTransformerEncoderLayerBuild ==
    /\ Live("SingleTransformerEncoderLayer")
    /\ ~Root.built
    /\ \E input_shape \in InputShapes(Root.params) :
           \E done \in { SingleTransformerEncoderLayer_build(Enter, <<>>, input_shape) } :
               Finish(done, "build")
    /\ UNCHANGED <<params, in_mask, in_training>>

\* SingleTransformerEncoderLayer.call(inputs, mask, training) on the built layer.
SingleTransformerEncoderLayerCall ==
    /\ Live("SingleTransformerEncoderLayer")
    /\ Root.built
    /\ \E mask \in Masks, training \in Trainings :
           /\ \E done \in { SingleTransformerEncoderLayer_call(EnterCall, <<>>, RootInputs, mask, training) } :
                  Finish(done, "call")
           /\ in_mask' = mask
           /\ in_training' = training
    /\ UNCHANGED params

\* TransformerEncoderLayer.from_params(params): allocate the layer, run _construct.
TransformerEncoderLayerConstruct ==
    /\ layers = {}
    /\ \E done \in { Install([Enter EXCEPT !.aborted = {}],
                               TransformerEncoderLayer_construct(
                                   NewLayer(<<>>, "TransformerEncoderLayer", params), params)) } :
           Finish(done, "_construct")
    /\ UNCHANGED <<params, in_mask, in_training>>

\* TransformerEncoderLayer.build(input_shape), run once before the first call.
TransformerEncoderLayerBuild ==
    /\ Live("TransformerEncoderLayer")
    /\ ~Root.built
    /\ \E input_shape \in InputShapes(Root.params) :
           \E done \in { TransformerEncoderLayer_build(Enter, <<>>, input_shape) } :
               Finish(done, "build")
    /\ UNCHANGED <<params, in_mask, in_training>>

\* TransformerEncoderLayer.call(inputs, mask, training) on the built layer.
TransformerEncoderLayerCall ==
    /\ Live("TransformerEncoderLayer")
    /\ Root.built
    /\ \E mask \in Masks, training \in Trainings :
           /\ \E done \in { TransformerEncoderLayer_call(EnterCall, <<>>, RootInputs, mask, training) } :
                  Finish(done, "call")
           /\ in_mask' = mask
           /\ in_training' = training
    /\ UNCHANGED params

Init ==
    /\ params \in ParamsSet
    /\ layers = {}
    /\ aborted = {}
    /\ tensors = <<>>
    /\ calls = <<>>
    /\ ret = 0
    /\ in_mask = "None"
    /\ in_training = "None"
    /\ raised = ""
    /\ raisedIn = ""

Next ==
    \/ ProjectionLayerConstruct
    \/ ProjectionLayerBuild
    \/ ProjectionLayerCall
    \/ TransformerSelfAttentionLayerConstruct
    \/ TransformerSelfAttentionLayerBuild
    \/ TransformerSelfAttentionLayerCall
    \/ SingleTransformerEncoderLayerConstruct
    \/ SingleTransformerEncoderLayerBuild
    \/ SingleTransformerEncoderLayerCall
    \/ TransformerEncoderLayerConstruct
    \/ TransformerEncoderLayerBuild
    \/ TransformerEncoderLayerCall

Spec == Init /\ [][Next]_vars

\* ------------------------------------------------------------ properties
TSAL == "TransformerSelfAttentionLayer"
STEL == "SingleTransformerEncoderLayer"
TEL  == "TransformerEncoderLayer"

Divisible(p) == p.hidden_size % p.num_heads = 0

\* the last forward pass ran to its end
Completed == calls # <<>> /\ raised = ""

\* the invocation records of layer `path` of class c in the last forward pass
Find(path, c) == {i \in 1..Len(calls) : calls[i].layer = path /\ calls[i].cls = c}

\* C1: for positive hidden_size, num_heads with hidden_size % num_heads = 0 and
\* no size_per_head supplied, the constructor of TransformerSelfAttentionLayer
\* and of SingleTransformerEncoderLayer never raises, and every object of these
\* classes has size_per_head = hidden_size / num_heads, so that
\* size_per_head * num_heads = hidden_size.
C1_SizePerHead ==
    /\ \A o \in aborted :
           o.cls \in {TSAL, STEL} => ~(Divisible(o.params) /\ o.params.size_per_head = {})
    /\ (/\ raisedIn = "_construct"
        /\ Divisible(params)
        /\ params.size_per_head = {}) => aborted = {}
    /\ \A l \in layers :
           l.cls \in {TSAL, STEL} =>
               /\ l.size_per_head = {l.params.hidden_size \div l.params.num_heads}
               /\ \A v \in l.size_per_head : v * l.params.num_heads = l.params.hidden_size

C1_Witness ==
    /\ Live(TSAL)
    /\ params.hidden_size = 4 /\ params.num_heads = 2 /\ params.size_per_head = {}
    /\ Root.size_per_head = {2}
    /\ raised = ""

\* C2: for positive hidden_size, num_heads with hidden_size % num_heads # 0 the
\* constructor of TransformerSelfAttentionLayer and of
\* SingleTransformerEncoderLayer raises ValueError: no object of these classes
\* exists with such params, and the object whose constructor raised has no
\* size_per_head, no attribute and no sub-layer.
C2_ConstructFails ==
    /\ \A l \in layers : l.cls \in {TSAL, STEL} => Divisible(l.params)
    /\ \A o \in aborted :
           (o.cls \in {TSAL, STEL} /\ ~Divisible(o.params)) =>
               /\ raised = "ValueError"
               /\ o.size_per_head = {}
               /\ o.attrs = {}
               /\ \A l \in layers :
                      ~(Len(l.path) > Len(o.path)
                        /\ SubSeq(l.path, 1, Len(o.path)) = o.path)

C2_Witness ==
    /\ layers = {}
    /\ raised = "ValueError" /\ raisedIn = "_construct"
    /\ \E o \in aborted : o.cls = STEL /\ o.path = <<>>
                          /\ o.params.hidden_size = 3 /\ o.params.num_heads = 2

\* C3 (as stated): no TransformerEncoderLayer object, built or not, has params
\* with hidden_size % num_heads # 0.
C3_Original ==
    \A l \in layers : l.cls = TEL => Divisible(l.params)

\* C3 (amended): the constructor of TransformerEncoderLayer never raises; the
\* divisibility is enforced by build: a TransformerEncoderLayer whose params
\* have hidden_size % num_heads # 0 is never built, holds no encoder layer, and
\* the build that was attempted raised ValueError.
C3_EnforcedAtBuild ==
    /\ \A o \in aborted : o.cls # TEL
    /\ \A l \in layers :
           (l.cls = TEL /\ ~Divisible(l.params)) =>
               /\ ~l.built
               /\ l.encoder_layers = <<>>
               /\ layers = {l}
               /\ l.input_spec # <<>> => (raised = "ValueError" /\ raisedIn = "build")

C3_Witness ==
    /\ Live(TEL)
    /\ params.hidden_size = 3 /\ params.num_heads = 2
    /\ ~Root.built
    /\ raised = "ValueError" /\ raisedIn = "build"

\* C4: a built TransformerEncoderLayer holds exactly num_layers encoder blocks
\* named layer_0 .. layer_{num_layers-1}, and a forward pass invokes exactly
\* these, in index order, each on the previous one's output, and returns the
\* last one's output.
C4_NumLayersBlocks ==
    \A l \in layers :
        (l.cls = TEL /\ l.built) =>
            /\ Len(l.encoder_layers) = l.params.num_layers
            /\ \A i \in 1..Len(l.encoder_layers) :
                   l.encoder_layers[i] = l.path \o <<LayerName(i - 1)>>
            /\ (Completed /\ l.path = <<>>) =>
                   /\ \A i \in 1..l.params.num_layers :
                          \E k \in Find(<<LayerName(i - 1)>>, STEL) :
                              calls[k].inputs =
                                  <<IF i = 1 THEN 1
                                    ELSE calls[Value(Find(<<LayerName(i - 2)>>, STEL))].output>>
                   /\ Cardinality({k \in 1..Len(calls) : calls[k].cls = STEL})
                          = l.params.num_layers
                   /\ ret = calls[Value(Find(<<LayerName(l.params.num_layers - 1)>>,
                                             STEL))].output

\* C5: a TransformerEncoderLayer with num_layers = 1 applies exactly one encoder
\* block, to the stack input, and returns that block's output.
C5_OneLayerIsSingleBlock ==
    (Live(TEL) /\ Root.params.num_layers = 1 /\ Completed) =>
        /\ Cardinality({k \in 1..Len(calls) : calls[k].cls = STEL}) = 1
        /\ \E k \in Find(<<LayerName(0)>>, STEL) :
               /\ calls[k].inputs = <<1>>
               /\ calls[k].output = ret

\* C6: the forward pass preserves the shape [batch, seq_len, hidden_size]: the
\* result of every ProjectionLayer, TransformerSelfAttentionLayer,
\* SingleTransformerEncoderLayer and TransformerEncoderLayer invocation has the
\* shape of the root's input; the intermediate dense yields last dimension
\* intermediate_size; the two operands of every residual add have equal shape.
C6_ShapePreserved ==
    Completed =>
        LET shape == <<tensors[1][1], tensors[1][2], Root.params.hidden_size>> IN
        /\ tensors[Len(Root.input_spec)] = shape
        /\ tensors[ret] = shape
        /\ \A k \in 1..Len(calls) :
               /\ calls[k].cls \in {"ProjectionLayer", TSAL, STEL, TEL} =>
                      tensors[calls[k].output] = shape
               /\ (calls[k].cls = "Dense"
                   /\ calls[k].layer[Len(calls[k].layer)] = "intermediate") =>
                      tensors[calls[k].output] =
                          <<shape[1], shape[2], Root.params.intermediate_size>>
               /\ calls[k].cls = "add" =>
                      /\ tensors[calls[k].inputs[1]] = tensors[calls[k].inputs[2]]
                      /\ tensors[calls[k].output] = shape

C6_Witness ==
    /\ Live(TEL)
    /\ Completed
    /\ Cardinality({k \in 1..Len(calls) : calls[k].cls = STEL}) = 2
    /\ params.hidden_size = 4 /\ params.intermediate_size = 2
    /\ tensors[ret] = <<2, 1, 4>>

\* C7: build and call never change a layer's configuration: at every step the
\* Params object and, for every layer object that exists before and after the
\* step, its params and its size_per_head keep their values.
C7_ParamsImmutable ==
    [][/\ params' = params
       /\ \A l \in layers : \A m \in layers' :
              m.path = l.path =>
                  /\ m.cls = l.cls
                  /\ m.params = l.params
                  /\ m.size_per_head = l.size_per_head]_vars

C7_Witness ==
    /\ Live(TEL)
    /\ Completed
    /\ Root.params = params
    /\ \E l \in layers : l.cls = "AttentionLayer" /\ l.built

\* C8: every ProjectionLayer invocation on [output, residual] computes
\* layer_norm(dropout(dense(output)) + residual): dense on output, dropout on
\* the dense result with the projector's training keyword, the add of the
\* dropout result and the residual, layer_norm on the sum; the residual enters
\* the add alone.
C8_ProjectionOrder ==
    \A k \in 1..Len(calls) :
        calls[k].cls = "ProjectionLayer" =>
            /\ k >= 5
            /\ LET r == calls[k]
                   d == calls[k - 4]
                   o == calls[k - 3]
                   a == calls[k - 2]
                   n == calls[k - 1]
               IN  /\ d.cls = "Dense" /\ d.layer = r.layer \o <<"dense">>
                   /\ d.inputs = <<r.inputs[1]>>
                   /\ o.cls = "Dropout" /\ o.inputs = <<d.output>>
                   /\ o.training = r.training
                   /\ a.cls = "add" /\ a.inputs = <<o.output, r.inputs[2]>>
                   /\ n.cls = "LayerNormalization" /\ n.inputs = <<a.output>>
                   /\ r.output = n.output
                   /\ \A j \in {k - 4, k - 3, k - 1} :
                          \A i \in 1..Len(calls[j].inputs) :
                              calls[j].inputs[i] # r.inputs[2]

C8_Witness ==
    /\ Live("ProjectionLayer")
    /\ Completed
    /\ in_training = "True"
    /\ Len(calls) = 5
    /\ calls[3].cls = "add" /\ calls[3].inputs = <<4, 2>>

\* C9: in every TransformerSelfAttentionLayer invocation the attention layer
\* receives the block input and the attention projector receives
\* [attention_head, block input]; in every SingleTransformerEncoderLayer
\* invocation the self-attention runs on the block input, then the intermediate
\* layer on the self-attention output, then the output projector on
\* [intermediate_output, attention_output], whose result is returned.
C9_Residuals ==
    \A k \in 1..Len(calls) :
        LET r == calls[k] IN
        /\ r.cls = TSAL =>
               \E h \in Find(r.layer \o <<"self">>, "AttentionLayer") :
               \E q \in Find(r.layer \o <<"output">>, "ProjectionLayer") :
                   /\ h < q /\ q < k
                   /\ calls[h].inputs = r.inputs
                   /\ calls[q].inputs = <<calls[h].output, r.inputs[1]>>
                   /\ r.output = calls[q].output
        /\ r.cls = STEL =>
               \E a \in Find(r.layer \o <<"attention">>, TSAL) :
               \E d \in Find(r.layer \o <<"intermediate">>, "Dense") :
               \E q \in Find(r.layer \o <<"output">>, "ProjectionLayer") :
                   /\ a < d /\ d < q /\ q < k
                   /\ calls[a].inputs = r.inputs
                   /\ calls[d].inputs = <<calls[a].output>>
                   /\ calls[q].inputs = <<calls[d].output, calls[a].output>>
                   /\ calls[a].output # r.inputs[1]
                   /\ r.output = calls[q].output

C9_Witness ==
    /\ Live(STEL)
    /\ Completed
    /\ \E q \in Find(<<"output">>, "ProjectionLayer") :
       \E a \in Find(<<"attention">>, TSAL) :
           calls[q].inputs[2] = calls[a].output /\ calls[q].inputs[2] # 1

\* C10: in a forward pass of TransformerEncoderLayer every invocation of an
\* encoder block, a self-attention layer, an attention layer and a
\* ProjectionLayer receives the mask and the training keyword of the root
\* call, and every dropout runs with the root call's training keyword.
C10_KeywordsPropagated ==
    (Live(TEL) /\ Completed) =>
        \A k \in 1..Len(calls) :
            /\ calls[k].cls \in {STEL, TSAL, "AttentionLayer", "ProjectionLayer"} =>
                   calls[k].mask = in_mask /\ calls[k].training = in_training
            /\ calls[k].cls = "Dropout" => calls[k].training = in_training

====
